---- MODULE Spec2Model ----
(***************************************************************************)
(* Model of the OCR text-to-fields extraction of the utility bill           *)
(* calculator (js/ocr.js): OCR.extractNumbers and OCR.extractReceiptData.   *)
(*                                                                         *)
(* A text is a sequence of one-character strings.  JavaScript values are    *)
(* records tagged by t: strings [t |-> "str", s |-> <<chars>>], numbers     *)
(* [t |-> "num", ip |-> <<digits>>, fp |-> <<digits>>] (the decimal ip.fp,  *)
(* ip without leading and fp without trailing zeros, so that equal numbers  *)
(* are equal records), and the tags "null", "undefined", "NaN".  The model  *)
(* holds for decimal strings of at most 15 significant digits, which a      *)
(* double represents distinctly.                                            *)
(* Regular expressions are data, matched by one backtracking matcher with   *)
(* the priorities of the ECMAScript matcher (leftmost start, greedy,        *)
(* alternatives in listed order).                                           *)
(***************************************************************************)
EXTENDS Integers, Sequences, FiniteSets, TLC

VARIABLES text, op, billType, cleaned, result, calls, params, calcResult,
          store, now, last, isProcessing, ocrCalls, objectURLs,
          currentBillType, previewImg, subMeterCurr, ocrStatus, startedFor

\* the state of one extraction call
ocrVars == <<text, op, billType, cleaned, result>>
\* the results of the receipt extractions called on one text so far
callVars == <<calls>>
\* the argument of Calculator.calculate and the object it returned
calcVars == <<params, calcResult>>

\* the localStorage item of Storage, the clock, and the last Storage call
storeVars == <<store, now, last>>

\* OCR.isProcessing, the calls of processImage and processReceipt, and the
\* object URLs created and not revoked
procVars == <<isProcessing, ocrCalls, objectURLs>>

\* the page: the bill type chosen, the image in the preview, the field of the
\* current sub-meter reading, the status line of the recognition, and the
\* bill type that was chosen when each upload began
uiVars == <<currentBillType, previewImg, subMeterCurr, ocrStatus, startedFor>>

vars == <<ocrVars, callVars, calcVars, storeVars, procVars, uiVars>>

MaxOcrCalls == 3

\* isProcessing: false, and no call of processImage or processReceipt yet
ProcessingIdle ==
    /\ isProcessing = FALSE
    /\ ocrCalls = [c \in 1..MaxOcrCalls |-> [pc |-> "notCalled"]]
    /\ objectURLs = {}

\* the page as loaded: electricity chosen, no image, empty field
PageLoaded ==
    /\ currentBillType = "electricity"
    /\ previewImg = 0
    /\ subMeterCurr = [t |-> "str", s |-> << >>]
    /\ ocrStatus = [display |-> "none", className |-> "ocr-status"]
    /\ startedFor = [c \in 1..MaxOcrCalls |-> "none"]

\* no call of Storage was made
StorageIdle == store = [t |-> "null"] /\ now = 0 /\ last = [op |-> "none"]

----------------------------------------------------------------------------
(* JavaScript values *)

Null == [t |-> "null"]
Undefined == [t |-> "undefined"]
NaN == [t |-> "NaN"]
Str(s) == [t |-> "str", s |-> s]
Num(ip, fp) == [t |-> "num", ip |-> ip, fp |-> fp]
TypeError == [t |-> "TypeError"]

IsNum(v) == v.t = "num"

----------------------------------------------------------------------------
(* Characters *)

Digit == {"0", "1", "2", "3", "4", "5", "6", "7", "8", "9"}

\* the members of \s (and of String.prototype.trim) that the inputs use
WhiteSpace == {" ", "\t", "\n"}

DigitVal(c) ==
    CASE c = "0" -> 0 [] c = "1" -> 1 [] c = "2" -> 2 [] c = "3" -> 3
      [] c = "4" -> 4 [] c = "5" -> 5 [] c = "6" -> 6 [] c = "7" -> 7
      [] c = "8" -> 8 [] c = "9" -> 9

\* the other case of an ASCII letter, for the i flag
OtherCase(c) ==
    CASE c = "t" -> "T" [] c = "o" -> "O" [] c = "a" -> "A" [] c = "l" -> "L"
      [] c = "c" -> "C" [] c = "n" -> "N" [] c = "s" -> "S" [] c = "u" -> "U"
      [] c = "m" -> "M" [] c = "p" -> "P" [] c = "i" -> "I" [] c = "k" -> "K"
      [] c = "w" -> "W" [] c = "h" -> "H"
      [] OTHER -> c

----------------------------------------------------------------------------
(* Strings *)

RECURSIVE ReplaceAll(_, _, _)
\* s.replace(/[from]/g, to): every character of the class from becomes to
\* (to is a sequence: <<"0">>, or <<>> to delete)
ReplaceAll(s, from, to) ==
    IF s = <<>> THEN <<>>
    ELSE (IF Head(s) \in from THEN to ELSE <<Head(s)>>)
         \o ReplaceAll(Tail(s), from, to)

RECURSIVE CollapseWhiteSpace(_)
\* s.replace(/\s+/g, ' '): every maximal run of white space becomes one space
CollapseWhiteSpace(s) ==
    IF s = <<>> THEN <<>>
    ELSE IF Head(s) \in WhiteSpace
         THEN IF Len(s) > 1 /\ s[2] \in WhiteSpace
              THEN CollapseWhiteSpace(Tail(s))
              ELSE <<" ">> \o CollapseWhiteSpace(Tail(s))
         ELSE <<Head(s)>> \o CollapseWhiteSpace(Tail(s))

RECURSIVE ReplaceFirst(_, _, _)
\* s.replace(',', '.'): the first occurrence only
ReplaceFirst(s, from, to) ==
    IF s = <<>> THEN <<>>
    ELSE IF Head(s) = from THEN <<to>> \o Tail(s)
    ELSE <<Head(s)>> \o ReplaceFirst(Tail(s), from, to)

RECURSIVE TrimStart(_)
TrimStart(s) ==
    IF s # <<>> /\ Head(s) \in WhiteSpace THEN TrimStart(Tail(s)) ELSE s

\* text.trim() === ''
TrimIsEmpty(s) == \A n \in 1..Len(s) : s[n] \in WhiteSpace

\* !text, for text a string, null or undefined
Falsy(v) == v.t \in {"null", "undefined"} \/ (v.t = "str" /\ v.s = <<>>)

----------------------------------------------------------------------------
(* parseFloat and Number.prototype.toString *)

RECURSIVE DigitRun(_)
\* the longest prefix of s made of decimal digits
DigitRun(s) ==
    IF s # <<>> /\ Head(s) \in Digit THEN <<Head(s)>> \o DigitRun(Tail(s))
    ELSE <<>>

RECURSIVE StripLeadingZeros(_)
StripLeadingZeros(ds) ==
    IF ds # <<>> /\ Head(ds) = "0" THEN StripLeadingZeros(Tail(ds)) ELSE ds

RECURSIVE StripTrailingZeros(_)
StripTrailingZeros(ds) ==
    IF ds # <<>> /\ ds[Len(ds)] = "0"
    THEN StripTrailingZeros(SubSeq(ds, 1, Len(ds) - 1))
    ELSE ds

\* parseFloat(s): leading white space is skipped, then the longest prefix
\* digits [. digits] with at least one digit is the value, NaN when there is
\* none.  (The code passes only strings cut by its digit patterns: a sign or
\* an exponent part never occurs in them.)
ParseFloat(s) ==
    LET t == TrimStart(s)
        ip == DigitRun(t)
        rest == SubSeq(t, Len(ip) + 1, Len(t))
        fp == IF rest # <<>> /\ Head(rest) = "." THEN DigitRun(Tail(rest))
              ELSE <<>>
    IN  IF ip = <<>> /\ fp = <<>> THEN NaN
        ELSE Num(StripLeadingZeros(ip), StripTrailingZeros(fp))

\* the number of a decimal literal of the code, such as 50000
Literal(ds) == Num(StripLeadingZeros(ds), <<>>)

RECURSIVE DigitsLess(_, _)
\* x < y for digit sequences read from the most significant digit on, a
\* missing digit counting as 0
DigitsLess(x, y) ==
    IF x = <<>> /\ y = <<>> THEN FALSE
    ELSE LET a == IF x = <<>> THEN 0 ELSE DigitVal(Head(x))
             b == IF y = <<>> THEN 0 ELSE DigitVal(Head(y))
         IN  IF a # b THEN a < b
             ELSE DigitsLess(IF x = <<>> THEN x ELSE Tail(x),
                             IF y = <<>> THEN y ELSE Tail(y))

\* a < b and a > b on numbers; every comparison with NaN is false (the code
\* compares numbers with numbers or NaN only)
Lt(a, b) ==
    /\ IsNum(a) /\ IsNum(b)
    /\ IF Len(a.ip) # Len(b.ip) THEN Len(a.ip) < Len(b.ip)
       ELSE IF a.ip # b.ip THEN DigitsLess(a.ip, b.ip)
       ELSE DigitsLess(a.fp, b.fp)
Gt(a, b) == Lt(b, a)

Zero == Literal(<<"0">>)

\* n.toString().length for a number below 1e21 and at least 1e-6 (or 0)
ToStringLen(v) ==
    (IF v.ip = <<>> THEN 1 ELSE Len(v.ip))
    + (IF v.fp = <<>> THEN 0 ELSE 1 + Len(v.fp))

----------------------------------------------------------------------------
(* Regular expressions *)

Chr(S) == [k |-> "chr", s |-> S]
Cat(rs) == [k |-> "cat", rs |-> rs]
Alt(rs) == [k |-> "alt", rs |-> rs]
\* greedy repetition r{lo,hi}; hi = -1 is no upper limit
Rep(r, lo, hi) == [k |-> "rep", r |-> r, lo |-> lo, hi |-> hi]
Opt(r) == Rep(r, 0, 1)
Star(r) == Rep(r, 0, -1)
Plus(r) == Rep(r, 1, -1)
\* the capturing group (each pattern of the code has at most one)
Grp(r) == [k |-> "grp", r |-> r]

\* a literal word; LitI is the literal under the i flag
Lit(w) == Cat([n \in 1..Len(w) |-> Chr({w[n]})])
LitI(w) == Cat([n \in 1..Len(w) |-> Chr({w[n], OtherCase(w[n])})])

D == Chr(Digit)
S == Chr(WhiteSpace)

NoCap == <<0, 0>>

RECURSIVE Match(_, _, _, _)
RECURSIVE MatchSeq(_, _, _, _)
RECURSIVE MatchAlt(_, _, _, _)
RECURSIVE Continue(_, _, _)
RECURSIVE Captured(_, _)

\* Match(r, s, i, cap): the ways r matches s from position i on, in the
\* matcher's order of preference; each is <<j, cap>>, j the position after
\* the match and cap = <<first, after>> the capture
Match(r, s, i, cap) ==
    CASE r.k = "chr" ->
            IF i <= Len(s) /\ s[i] \in r.s THEN << <<i + 1, cap>> >> ELSE << >>
      [] r.k = "cat" -> MatchSeq(r.rs, s, i, cap)
      [] r.k = "alt" -> MatchAlt(r.rs, s, i, cap)
      [] r.k = "rep" ->
            LET once == IF r.hi = 0 THEN << >> ELSE Match(r.r, s, i, cap)
                more == Rep(r.r,
                            IF r.lo > 0 THEN r.lo - 1 ELSE 0,
                            IF r.hi > 0 THEN r.hi - 1 ELSE r.hi)
            IN  Continue(once, <<more>>, s)
                \o (IF r.lo = 0 THEN << <<i, cap>> >> ELSE << >>)
      [] r.k = "grp" -> Captured(Match(r.r, s, i, cap), i)

\* the group's matches fs, each with the group's capture set
Captured(fs, i) == [n \in 1..Len(fs) |-> <<fs[n][1], <<i, fs[n][1]>>>>]

MatchSeq(rs, s, i, cap) ==
    IF rs = << >> THEN << <<i, cap>> >>
    ELSE Continue(Match(Head(rs), s, i, cap), Tail(rs), s)

MatchAlt(rs, s, i, cap) ==
    IF rs = << >> THEN << >>
    ELSE Match(Head(rs), s, i, cap) \o MatchAlt(Tail(rs), s, i, cap)

Continue(fs, rs, s) ==
    IF fs = << >> THEN << >>
    ELSE MatchSeq(rs, s, fs[1][1], fs[1][2]) \o Continue(Tail(fs), rs, s)

NoMatch == [index |-> 0]

\* the match object of the preferred way m = <<j, cap>> of matching at i:
\* where it starts and ends, the matched substring m[0] and the captured
\* substring m[1]
MatchObject(s, i, m) ==
    [index |-> i, end |-> m[1],
     m0 |-> SubSeq(s, i, m[1] - 1),
     m1 |-> IF m[2] = NoCap THEN Undefined
            ELSE Str(SubSeq(s, m[2][1], m[2][2] - 1))]

RECURSIVE Exec(_, _, _)
RECURSIVE ExecFrom(_, _, _, _)
\* the first match of r in s at or after position i
Exec(r, s, i) ==
    IF i > Len(s) + 1 THEN NoMatch
    ELSE ExecFrom(r, s, i, Match(r, s, i, NoCap))

\* ms are the ways r matches at i: the first of them, or the search goes on
ExecFrom(r, s, i, ms) ==
    IF ms = << >> THEN Exec(r, s, i + 1) ELSE MatchObject(s, i, ms[1])

RECURSIVE ExecAll(_, _, _)
RECURSIVE ExecNext(_, _, _)
\* every match of a g-flagged pattern, in text order: the loop of
\* String.prototype.match and of repeated RegExp.prototype.exec (lastIndex)
ExecAll(r, s, i) == ExecNext(r, s, Exec(r, s, i))

\* x is the match found: the search goes on behind it
ExecNext(r, s, x) ==
    IF x = NoMatch THEN << >>
    ELSE <<x>> \o ExecAll(r, s, IF x.end = x.index THEN x.end + 1 ELSE x.end)

----------------------------------------------------------------------------
(* OCR.extractNumbers *)

\* GlyphClean with the line for s and S left out
GlyphClean_NoFive(s) ==
    CollapseWhiteSpace(
        ReplaceAll(
            ReplaceAll(
                ReplaceAll(s, {"o", "O"}, <<"0">>),
                {"l", "I", "|"}, <<"1">>),
            {"b", "B"}, <<"8">>))

\* the normalisation of extractNumbers: the glyph map, then white space
GlyphClean(s) ==
    CollapseWhiteSpace(
        ReplaceAll(
            ReplaceAll(
                ReplaceAll(
                    ReplaceAll(s, {"o", "O"}, <<"0">>),
                    {"l", "I", "|"}, <<"1">>),
                {"s", "S"}, <<"5">>),
            {"b", "B"}, <<"8">>))

\* /\d{3,8}(?:\.\d{1,3})?/g
numberPattern == Cat(<<Rep(D, 3, 8), Opt(Cat(<<Chr({"."}), Rep(D, 1, 3)>>))>>)

\* /\d{2,}/g
simplePattern == Rep(D, 2, -1)

\* the matched substrings of the matches all
Substrings(all) == [n \in 1..Len(all) |-> all[n].m0]

\* the matched substrings of a g-flagged pattern, in text order
MatchedStrings(r, s) == Substrings(ExecAll(r, s, 1))

RECURSIVE InsertByLength(_, _)
\* v put into a list sorted by non-increasing toString().length, after the
\* entries at least as long (the sort is stable)
InsertByLength(v, sorted) ==
    IF sorted = << >> THEN <<v>>
    ELSE IF ToStringLen(Head(sorted)) >= ToStringLen(v)
         THEN <<Head(sorted)>> \o InsertByLength(v, Tail(sorted))
         ELSE <<v>> \o sorted

RECURSIVE SortByLength(_)
\* .sort((a, b) => b.toString().length - a.toString().length)
SortByLength(vs) ==
    IF vs = << >> THEN << >>
    ELSE InsertByLength(vs[Len(vs)], SortByLength(SubSeq(vs, 1, Len(vs) - 1)))

\* .map(n => parseFloat(n))
ParseAll(ms) == [n \in 1..Len(ms) |-> ParseFloat(ms[n])]

\* .filter(n => !isNaN(n) && n > 0)
Positive(vs) == SelectSeq(vs, LAMBDA v : IsNum(v) /\ Gt(v, Zero))

\* a[0]
First(a) == IF a = << >> THEN Undefined ELSE a[1]

\* the local variable cleaned of extractNumbers, undefined on the early return
extractNumbersCleaned(txt) ==
    IF Falsy(txt) \/ TrimIsEmpty(txt.s) THEN Undefined ELSE Str(GlyphClean(txt.s))

\* the result of the main branch
SortedResult(txt, sortedNumbers) ==
    [found |-> TRUE, numbers |-> sortedNumbers,
     bestMatch |-> First(sortedNumbers), rawText |-> txt]

\* NumbersResult without the test of simpleMatches: null.map throws
NumbersResult_NoSimpleCheck(txt, matches, simpleMatches) ==
    IF matches = << >>
    THEN IF simpleMatches = << >>
         THEN TypeError
         ELSE [found |-> TRUE, numbers |-> ParseAll(simpleMatches),
               bestMatch |-> ParseFloat(simpleMatches[1]), rawText |-> txt]
    ELSE SortedResult(txt, SortByLength(Positive(ParseAll(matches))))

\* what extractNumbers returns, given the matches of numberPattern and of
\* simplePattern in cleaned (an empty list stands for match returning null)
NumbersResult(txt, matches, simpleMatches) ==
    IF matches = << >>
    THEN IF simpleMatches = << >>
         THEN [found |-> FALSE, numbers |-> << >>, bestMatch |-> Null,
               rawText |-> txt]
         ELSE [found |-> TRUE, numbers |-> ParseAll(simpleMatches),
               bestMatch |-> ParseFloat(simpleMatches[1]), rawText |-> txt]
    ELSE SortedResult(txt, SortByLength(Positive(ParseAll(matches))))

extractNumbers(txt) ==
    IF Falsy(txt) \/ TrimIsEmpty(txt.s)
    THEN [found |-> FALSE, numbers |-> << >>, bestMatch |-> Null]
    ELSE NumbersResult(txt,
                       MatchedStrings(numberPattern, GlyphClean(txt.s)),
                       MatchedStrings(simplePattern, GlyphClean(txt.s)))

----------------------------------------------------------------------------
(* OCR.extractReceiptData *)

\* total
WTotal == <<"t", "o", "t", "a", "l">>
\* consumption
WConsumption == <<"c", "o", "n", "s", "u", "m", "p", "t", "i", "o", "n">>
\* kwh
WKwh == <<"k", "w", "h">>
\* m3
WM3 == <<"m", "3">>
\* m³
WMCubed == <<"m", "³">>
\* סה"כ
WSahakQ == <<"ס", "ה", "\"", "כ">>
\* סהכ
WSahak == <<"ס", "ה", "כ">>
\* לתשלום
WLeTashlum == <<"ל", "ת", "ש", "ל", "ו", "ם">>
\* חשבון
WHeshbon == <<"ח", "ש", "ב", "ו", "ן">>
\* יתרה
WYitra == <<"י", "ת", "ר", "ה">>
\* סכום
WSkhum == <<"ס", "כ", "ו", "ם">>
\* צריכה
WTsricha == <<"צ", "ר", "י", "כ", "ה">>
\* קוט"ש
WKotash == <<"ק", "ו", "ט", "\"", "ש">>
\* קילוואט
WKilowatt == <<"ק", "י", "ל", "ו", "ו", "א", "ט">>
\* מ"ק
WMak == <<"מ", "\"", "ק">>
\* מטר
WMeter == <<"מ", "ט", "ר">>
\* מעוקב
WMeukav == <<"מ", "ע", "ו", "ק", "ב">>
\* the geresh that the quote normalisation rewrites
Geresh == "׳"
Shekel == "₪"

\* ReceiptClean with the glyph map of extractNumbers applied as well
ReceiptClean_WithGlyphs(s) ==
    ReplaceAll(
        ReplaceAll(GlyphClean(s), {","}, << >>),
        {Geresh, "'"}, <<"'">>)

\* the normalisation of extractReceiptData: white space, commas, quotes
ReceiptClean(s) ==
    ReplaceAll(
        ReplaceAll(CollapseWhiteSpace(s), {","}, << >>),
        {Geresh, "'"}, <<"'">>)

Ws == Star(S)
\* \d+[\.,]?\d*
Amount == Cat(<<Plus(D), Opt(Chr({".", ","})), Star(D)>>)
\* \d+[\.,]\d{2}
Amount2 == Cat(<<Plus(D), Chr({".", ","}), Rep(D, 2, 2)>>)

billPatterns == <<
    [g |-> FALSE,
     re |-> Cat(<<Alt(<<Cat(<<LitI(WSahakQ), Ws, LitI(WLeTashlum)>>),
                        Cat(<<LitI(WSahak), Ws, LitI(WLeTashlum)>>),
                        LitI(WLeTashlum),
                        Cat(<<LitI(WSahakQ), Ws, LitI(WHeshbon)>>),
                        Cat(<<LitI(WYitra), Ws, LitI(WLeTashlum)>>),
                        Cat(<<LitI(WSkhum), Ws, LitI(WLeTashlum)>>),
                        LitI(WTotal)>>),
                  Ws, Opt(Chr({":", "-"})), Ws, Opt(Chr({Shekel})), Ws,
                  Grp(Amount)>>)],
    [g |-> FALSE,
     re |-> Cat(<<Chr({Shekel}), Ws, Grp(Amount), Ws,
                  Alt(<<LitI(WSahakQ), LitI(WLeTashlum), LitI(WTotal)>>)>>)],
    [g |-> TRUE,
     re |-> Cat(<<Grp(Amount2), Ws, Chr({Shekel})>>)],
    [g |-> TRUE,
     re |-> Cat(<<Chr({Shekel}), Ws, Grp(Amount2)>>)] >>

\* /(\d{2,6}[\.,]\d{2})/g
moneyPattern == Grp(Cat(<<Rep(D, 2, 6), Chr({".", ","}), Rep(D, 2, 2)>>))

electricityPatterns == <<
    [g |-> FALSE,
     re |-> Cat(<<Alt(<<LitI(WTsricha),
                        Cat(<<LitI(WSahakQ), Ws, LitI(WTsricha)>>),
                        LitI(WConsumption), LitI(WKotash), LitI(WKwh),
                        LitI(WKilowatt)>>),
                  Ws, Opt(Chr({":", "-"})), Ws, Grp(Amount)>>)],
    [g |-> FALSE,
     re |-> Cat(<<Grp(Amount), Ws,
                  Alt(<<LitI(WKotash), LitI(WKwh), LitI(WKilowatt)>>)>>)] >>

waterPatterns == <<
    [g |-> FALSE,
     re |-> Cat(<<Alt(<<LitI(WTsricha),
                        Cat(<<LitI(WSahakQ), Ws, LitI(WTsricha)>>),
                        LitI(WConsumption), LitI(WMak),
                        Cat(<<LitI(WMeter), Ws, LitI(WMeukav)>>),
                        LitI(WMCubed), LitI(WM3)>>),
                  Ws, Opt(Chr({":", "-"})), Ws, Grp(Amount)>>)],
    [g |-> FALSE,
     re |-> Cat(<<Grp(Amount), Ws,
                  Alt(<<LitI(WMak), Cat(<<LitI(WMeter), Ws, LitI(WMeukav)>>),
                        LitI(WMCubed), LitI(WM3)>>)>>)] >>

\* the array of a match with the g flag: all matched substrings
GlobalMatchArray(all) ==
    IF all = << >> THEN Null
    ELSE [t |-> "array", a |-> [n \in 1..Len(all) |-> Str(all[n].m0)]]

\* the array of a match without the g flag: the match and its capture
MatchArray(x) ==
    IF x = NoMatch THEN Null ELSE [t |-> "array", a |-> <<Str(x.m0), x.m1>>]

\* cleaned.match(pattern): with the g flag the array of all matched
\* substrings, without it the first match and its capture; null when none
StringMatch(s, p) ==
    IF p.g THEN GlobalMatchArray(ExecAll(p.re, s, 1))
    ELSE MatchArray(Exec(p.re, s, 1))

\* match && match[1]
MatchOne(match) ==
    IF match.t = "array" /\ Len(match.a) >= 2 /\ match.a[2].t = "str"
       /\ match.a[2].s # << >>
    THEN match.a[2] ELSE Undefined

\* parseFloat(match[1].replace(',', '.'))
ParseCaptured(c) == ParseFloat(ReplaceFirst(c.s, ",", "."))

MaxBill == Literal(<<"5", "0", "0", "0", "0">>)
MinFallback == Literal(<<"1", "0">>)
MaxElectricity == Literal(<<"1", "0", "0", "0", "0", "0">>)
MaxWater == Literal(<<"1", "0", "0", "0", "0">>)

\* InRange without the test val < hi
InRange_NoUpperBound(val, lo, hi) == Gt(val, lo)

\* val > lo && val < hi
InRange(val, lo, hi) == Gt(val, lo) /\ Lt(val, hi)

RECURSIVE FirstInRange(_, _, _, _)
RECURSIVE TryPattern(_, _, _, _, _)
\* for (const pattern of patterns): the value of the first pattern whose
\* match[1] parses to a value with lo < val < hi, null when there is none
FirstInRange(patterns, s, lo, hi) ==
    IF patterns = << >> THEN Null
    ELSE TryPattern(MatchOne(StringMatch(s, Head(patterns))),
                    patterns, s, lo, hi)

\* the body of the loop, m1 being match && match[1] for the first pattern
TryPattern(m1, patterns, s, lo, hi) ==
    IF m1 # Undefined /\ InRange(ParseCaptured(m1), lo, hi)
    THEN ParseCaptured(m1)
    ELSE FirstInRange(Tail(patterns), s, lo, hi)

Larger(a, b) == IF Lt(a, b) THEN b ELSE a

\* MathMax taking the first amount
MathMax_First(vs) == vs[1]

RECURSIVE MathMax(_)
\* Math.max(...amounts), amounts not empty
MathMax(vs) ==
    IF Len(vs) = 1 THEN vs[1] ELSE Larger(Head(vs), MathMax(Tail(vs)))

\* the captured substrings of the matches all, parsed
CapturedValues(all) == [n \in 1..Len(all) |-> ParseCaptured(all[n].m1)]

\* the amounts of the keyword-free scan: the while loop over moneyPattern
FallbackAmounts(s) ==
    SelectSeq(CapturedValues(ExecAll(moneyPattern, s, 1)),
              LAMBDA v : InRange(v, MinFallback, MaxBill))

\* totalBill after the keyword patterns (keyword) and the keyword-free scan
TotalBillOf(keyword, amounts) ==
    IF keyword # Null THEN keyword
    ELSE IF amounts # << >> THEN MathMax(amounts)
    ELSE Null

extractTotalBill(s) ==
    TotalBillOf(FirstInRange(billPatterns, s, Zero, MaxBill),
                FallbackAmounts(s))

extractConsumption(s, bt) ==
    IF bt = "electricity"
    THEN FirstInRange(electricityPatterns, s, Zero, MaxElectricity)
    ELSE FirstInRange(waterPatterns, s, Zero, MaxWater)

\* the local variable cleaned of extractReceiptData
extractReceiptDataCleaned(txt) ==
    IF Falsy(txt) \/ TrimIsEmpty(txt.s) THEN Undefined ELSE Str(ReceiptClean(txt.s))

\* ReceiptResult with the consumption reported only when no total was found
ReceiptResult_TotalHidesConsumption(totalBill, consumption, rawText) ==
    [found |-> totalBill # Null \/ consumption # Null,
     totalBill |-> totalBill,
     consumption |-> IF totalBill # Null THEN Null ELSE consumption,
     rawText |-> rawText]

\* the returned object
ReceiptResult(totalBill, consumption, rawText) ==
    [found |-> totalBill # Null \/ consumption # Null,
     totalBill |-> totalBill, consumption |-> consumption,
     rawText |-> rawText]

extractReceiptData(txt, bt) ==
    IF Falsy(txt) \/ TrimIsEmpty(txt.s)
    THEN [found |-> FALSE, totalBill |-> Null, consumption |-> Null,
          rawText |-> Str(<< >>)]
    ELSE ReceiptResult(extractTotalBill(ReceiptClean(txt.s)),
                       extractConsumption(ReceiptClean(txt.s), bt),
                       txt)

----------------------------------------------------------------------------
(* Input texts *)

\* the texts of the scenarios
\* "O1234"
ScenarioA == <<"O", "1", "2", "3", "4">>
\* "Total Due: 123.45 and subtotal 45.00"
ScenarioB ==
    <<"T", "o", "t", "a", "l", " ", "D", "u", "e", ":", " ",
      "1", "2", "3", ".", "4", "5", " ", "a", "n", "d", " ",
      "s", "u", "b", "t", "o", "t", "a", "l", " ", "4", "5", ".", "0", "0">>
\* "consumption 000 units"
ScenarioC == WConsumption \o <<" ", "0", "0", "0", " ", "u", "n", "i", "t", "s">>
\* "0123 4567": two digit runs of equal length, the first with a leading zero
ScenarioE == <<"0", "1", "2", "3", " ", "4", "5", "6", "7">>
\* "total 0 total 5": the second match of the keyword pattern is in range
ScenarioTwoTotals == WTotal \o <<" ", "0", " ">> \o WTotal \o <<" ", "5">>

\* "total 50000 12.50kwh": the keyword captures a value outside the interval
ScenarioOutOfRange ==
    WTotal \o <<" ", "5", "0", "0", "0", "0", " ", "1", "2", ".", "5", "0">>
    \o WKwh

\* "0012 345": the longer digit run has leading zeros
ScenarioLeadingZeros == <<"0", "0", "1", "2", " ", "3", "4", "5">>

\* "total 123,45" and "total 123.45": the comma as decimal separator
ScenarioComma == WTotal \o <<" ", "1", "2", "3", ",", "4", "5">>
ScenarioPoint == WTotal \o <<" ", "1", "2", "3", ".", "4", "5">>

\* "12.50 45.00 27.00": amounts without keyword, the largest in the middle
ScenarioAmounts ==
    <<"1", "2", ".", "5", "0", " ", "4", "5", ".", "0", "0", " ",
      "2", "7", ".", "0", "0">>

Scenarios ==
    {ScenarioA, ScenarioB, ScenarioC, ScenarioE, ScenarioTwoTotals,
     ScenarioOutOfRange, ScenarioLeadingZeros, ScenarioComma, ScenarioPoint,
     ScenarioAmounts}

\* the pieces meter-reading texts are put together from
BareFragments ==
    {<<"0">>, <<"0", "1", "2">>, <<"3", "4", "5">>, <<"O">>, <<"l", "S", "B">>,
     <<".">>, <<" ">>}

\* the pieces receipt texts are put together from
ReceiptFragments ==
    {WTotal \o <<" ">>, <<Shekel>>, <<"0">>, <<"5", ".", "0", "0">>,
     <<"1", "2", ".", "5", "0">>, <<"5", "0", "0", "0", "0">>,
     <<"1", "0", "0", "0", "0">>, WKwh, WM3,
     <<",">>, <<",", " ">>, <<" ">>, <<"\t">>, <<Geresh>>, <<"'">>}

MaxBareFragments == 3
MaxReceiptFragments == 2

RECURSIVE Flatten(_)
Flatten(fs) == IF fs = << >> THEN << >> ELSE Head(fs) \o Flatten(Tail(fs))

TextsOf(fragments, max) ==
    {Flatten(fs) : fs \in UNION {[1..n -> fragments] : n \in 0..max}}

Inputs ==
    {Null}
    \cup {Str(s) : s \in TextsOf(BareFragments, MaxBareFragments)
                       \cup TextsOf(ReceiptFragments, MaxReceiptFragments)
                       \cup Scenarios}

BillTypes == {"electricity", "water"}

----------------------------------------------------------------------------
(* The extraction engine as a state machine: a recognised text arrives,    *)
(* and one of the two extractions is applied to it.                        *)

Init ==
    /\ text \in Inputs
    /\ op = "none"
    /\ billType = "none"
    /\ cleaned = Undefined
    /\ result = Undefined
    /\ calls = << >>
    /\ params = Undefined
    /\ calcResult = Undefined
    /\ StorageIdle
    /\ ProcessingIdle
    /\ PageLoaded

\* const numbers = this.extractNumbers(result.data.text)
ExtractNumbers ==
    /\ op = "none"
    /\ op' = "extractNumbers"
    /\ cleaned' = extractNumbersCleaned(text)
    /\ result' = extractNumbers(text)
    /\ UNCHANGED <<text, billType>>
    /\ UNCHANGED <<callVars, calcVars, storeVars, procVars, uiVars>>

\* const extracted = this.extractReceiptData(result.data.text, billType)
ExtractReceiptData(bt) ==
    /\ op = "none"
    /\ op' = "extractReceiptData"
    /\ billType' = bt
    /\ cleaned' = extractReceiptDataCleaned(text)
    /\ result' = extractReceiptData(text, bt)
    /\ UNCHANGED text
    /\ UNCHANGED <<callVars, calcVars, storeVars, procVars, uiVars>>

Next ==
    \/ ExtractNumbers
    \/ \E bt \in BillTypes : ExtractReceiptData(bt)

Spec == Init /\ [][Next]_vars

----------------------------------------------------------------------------
(* Several receipt extractions on the same recognised text: each call of   *)
(* extractReceiptData is recorded with its bill type and returned object.   *)

\* the pieces the texts of repeated calls are put together from
CallFragments ==
    {WTotal \o <<" ">>, <<Shekel>>, <<"5", ".", "0", "0">>,
     <<"1", "2", ".", "5", "0">>, WKwh, WM3, <<" ">>}

MaxCallFragments == 2
MaxCalls == 2

CallInputs ==
    {Null}
    \cup {Str(s) : s \in TextsOf(CallFragments, MaxCallFragments)
                       \cup Scenarios}

InitCalls ==
    /\ text \in CallInputs
    /\ op = "none"
    /\ billType = "none"
    /\ cleaned = Undefined
    /\ result = Undefined
    /\ calls = << >>
    /\ params = Undefined
    /\ calcResult = Undefined
    /\ StorageIdle
    /\ ProcessingIdle
    /\ PageLoaded

\* one more call OCR.extractReceiptData(text, bt) on the same text
CallReceipt(bt) ==
    /\ Len(calls) < MaxCalls
    /\ calls' = Append(calls, [billType |-> bt,
                               result |-> extractReceiptData(text, bt)])
    /\ UNCHANGED <<ocrVars, calcVars, storeVars, procVars, uiVars>>

NextCalls == \E bt \in BillTypes : CallReceipt(bt)

SpecCalls == InitCalls /\ [][NextCalls]_vars

----------------------------------------------------------------------------
(* JavaScript numbers in arithmetic: IEEE 754 binary64.                    *)
(* A finite number is [t |-> "double", s, m, e], the value s * m * 2^e     *)
(* with the sign s in {1, -1} and the significand m of exactly 53 bits,    *)
(* or m = 0 and e = 0 for the two zeros.  A significand is a natural       *)
(* number of any size: its limbs to the base 2^14, the least significant   *)
(* first, no zero limb at the top, << >> for 0.  Every operation returns   *)
(* the double nearest to the exact result, ties to the even significand.   *)
(* Subnormal numbers and overflow are out of reach of the inputs.          *)

Base == 2^14
One == <<1>>

RECURSIVE Big(_)
\* the natural number n
Big(n) == IF n = 0 THEN << >> ELSE <<n % Base>> \o Big(n \div Base)

Limb(a, i) == IF i <= Len(a) THEN a[i] ELSE 0

RECURSIVE AddFrom(_, _, _, _)
\* the limbs from i on of a + b, with the carry c
AddFrom(a, b, i, c) ==
    IF i > Len(a) /\ i > Len(b)
    THEN IF c = 0 THEN << >> ELSE <<c>>
    ELSE <<(Limb(a, i) + Limb(b, i) + c) % Base>>
         \o AddFrom(a, b, i + 1, (Limb(a, i) + Limb(b, i) + c) \div Base)

BigAdd(a, b) == AddFrom(a, b, 1, 0)

RECURSIVE Norm(_)
Norm(a) ==
    IF a # << >> /\ a[Len(a)] = 0 THEN Norm(SubSeq(a, 1, Len(a) - 1)) ELSE a

RECURSIVE SubFrom(_, _, _, _)
\* the limbs from i on of a - b, with the borrow c
SubFrom(a, b, i, c) ==
    IF i > Len(a) THEN << >>
    ELSE IF a[i] - Limb(b, i) - c < 0
         THEN <<a[i] - Limb(b, i) - c + Base>> \o SubFrom(a, b, i + 1, 1)
         ELSE <<a[i] - Limb(b, i) - c>> \o SubFrom(a, b, i + 1, 0)

\* a - b, for a >= b
BigSub(a, b) == Norm(SubFrom(a, b, 1, 0))

BigLess(a, b) ==
    IF Len(a) # Len(b) THEN Len(a) < Len(b)
    ELSE \E i \in 1..Len(a) :
             a[i] < b[i] /\ \A j \in (i + 1)..Len(a) : a[j] = b[j]

RECURSIVE MulLimb(_, _, _, _)
\* the limbs from i on of a * k, with the carry c
MulLimb(a, k, i, c) ==
    IF i > Len(a)
    THEN IF c = 0 THEN << >> ELSE <<c>>
    ELSE <<(a[i] * k + c) % Base>>
         \o MulLimb(a, k, i + 1, (a[i] * k + c) \div Base)

RECURSIVE BigMul(_, _)
BigMul(a, b) ==
    IF a = << >> \/ b = << >> THEN << >>
    ELSE Norm(BigAdd(MulLimb(a, Head(b), 1, 0), <<0>> \o BigMul(a, Tail(b))))

\* 2^k
Pow2(k) == [i \in 1..(k \div 14) |-> 0] \o <<2^(k % 14)>>

RECURSIVE Bits(_)
Bits(n) == IF n = 0 THEN 0 ELSE 1 + Bits(n \div 2)
\* the number of bits of a
BitLen(a) ==
    IF a = << >> THEN 0 ELSE 14 * (Len(a) - 1) + Bits(a[Len(a)])

\* from the quotient and remainder qr by 2b to those by b
DivStep(qr, b) ==
    IF BigLess(qr[2], b) THEN <<BigAdd(qr[1], qr[1]), qr[2]>>
    ELSE <<BigAdd(BigAdd(qr[1], qr[1]), One), BigSub(qr[2], b)>>

RECURSIVE DivLimb(_, _)
\* <<quotient, remainder>> of a by b, for b > 0 and a < b * Base
DivLimb(a, b) ==
    IF BigLess(a, b) THEN <<<< >>, a>>
    ELSE DivStep(DivLimb(a, BigAdd(b, b)), b)

RECURSIVE LongDiv(_, _, _, _, _)
RECURSIVE LongStep(_, _, _, _, _)
\* long division, the limbs of a above i being done with the quotient q and
\* the remainder r
LongDiv(a, b, i, q, r) ==
    IF i = 0 THEN <<Norm(q), r>>
    ELSE IF r = << >> /\ a[i] = 0 THEN LongDiv(a, b, i - 1, <<0>> \o q, r)
    ELSE LongStep(DivLimb(<<a[i]>> \o r, b), a, b, i, q)

\* qr: the limb i of the quotient and the remainder it leaves
LongStep(qr, a, b, i, q) ==
    LongDiv(a, b, i - 1, <<Limb(qr[1], 1)>> \o q, qr[2])

\* <<quotient, remainder>> of a by b, b > 0
DivMod(a, b) == LongDiv(a, b, Len(a), << >>, << >>)

Double(s, m, e) == [t |-> "double", s |-> s, m |-> m, e |-> e]
Infinity(s) == [t |-> "Infinity", s |-> s]
IsFinite(x) == x.t = "double"
IsZero(x) == x.t = "double" /\ x.m = << >>

\* a significand that rounding carried to 2^53 is renormalised
Pack(s, m, e) ==
    IF BitLen(m) > 53 THEN Double(s, Pow2(52), e + 1) ELSE Double(s, m, e)

\* mr: the 53 leading bits of the quotient and the bits cut off; half: the
\* weight of the first bit cut off; sticky: the division left a remainder
RoundEven(s, mr, half, sticky, e) ==
    IF BigLess(half, mr[2])
       \/ (mr[2] = half /\ (sticky \/ mr[1][1] % 2 = 1))
    THEN Pack(s, BigAdd(mr[1], One), e)
    ELSE Double(s, mr[1], e)

\* qr: a quotient of at least 55 bits and its remainder
RoundQuotient(s, qr, e) ==
    RoundEven(s, DivMod(qr[1], Pow2(BitLen(qr[1]) - 53)),
              Pow2(BitLen(qr[1]) - 54), qr[2] # << >>,
              e + BitLen(qr[1]) - 53)

\* by how many bits n is shifted for the quotient by d to have 55 bits
Scale(n, d) ==
    IF 56 + BitLen(d) - BitLen(n) > 0 THEN 56 + BitLen(d) - BitLen(n) ELSE 0

\* the double nearest to s * (n / d) * 2^e, for naturals n and d > 0
Nearest(s, n, d, e) ==
    IF n = << >> THEN Double(s, << >>, 0)
    ELSE RoundQuotient(s, DivMod(BigMul(n, Pow2(Scale(n, d))), d),
                       e - Scale(n, d))

\* the Number value of the decimal n / d, as parseFloat returns it
Decimal(n, d) ==
    IF n < 0 THEN Nearest(-1, Big(-n), Big(d), 0)
    ELSE Nearest(1, Big(n), Big(d), 0)

\* x * y
NumMul(x, y) == Nearest(x.s * y.s, BigMul(x.m, y.m), One, x.e + y.e)

\* x / y
NumDiv(x, y) ==
    IF IsZero(y) THEN IF IsZero(x) THEN NaN ELSE Infinity(x.s * y.s)
    ELSE Nearest(x.s * y.s, x.m, y.m, x.e - y.e)

\* a * sa + b * sb for naturals a, b and signs sa, sb, times 2^e; a sum
\* that is zero is +0, unless both terms are -0
SignedSum(sa, a, sb, b, e) ==
    IF sa = sb THEN Nearest(sa, BigAdd(a, b), One, e)
    ELSE IF a = b THEN Double(1, << >>, 0)
    ELSE IF BigLess(a, b) THEN Nearest(sb, BigSub(b, a), One, e)
    ELSE Nearest(sa, BigSub(a, b), One, e)

MinExp(x, y) == IF x.e < y.e THEN x.e ELSE y.e

\* x + y
NumAdd(x, y) ==
    SignedSum(x.s, BigMul(x.m, Pow2(x.e - MinExp(x, y))),
              y.s, BigMul(y.m, Pow2(y.e - MinExp(x, y))), MinExp(x, y))

\* x - y
NumSub(x, y) == NumAdd(x, Double(-y.s, y.m, y.e))

Negative(x) == ~IsZero(x) /\ x.s = -1

\* x < y
NumLess(x, y) == Negative(NumSub(x, y))

\* qr: the integer part of |x| and the part cut off; den: the weight of 1
RoundHalfUp(s, qr, den) ==
    IF s = 1
    THEN IF BigLess(BigAdd(qr[2], qr[2]), den) THEN Nearest(1, qr[1], One, 0)
         ELSE Nearest(1, BigAdd(qr[1], One), One, 0)
    ELSE IF BigLess(den, BigAdd(qr[2], qr[2]))
         THEN Nearest(-1, BigAdd(qr[1], One), One, 0)
         ELSE Nearest(-1, qr[1], One, 0)

\* Math.round(x): the nearest integer, a tie towards +Infinity
MathRound(x) ==
    IF x.e >= 0 THEN x
    ELSE RoundHalfUp(x.s, DivMod(x.m, Pow2(-x.e)), Pow2(-x.e))

----------------------------------------------------------------------------
(* Calculator.validate and Calculator.calculate.  The fields officialRate, *)
(* rateCheck and unitLabel of the result, which only describe the rate for  *)
(* display, are left out.                                                   *)

NumZero == Double(1, << >>, 0)
Hundred == Decimal(100, 1)

\* !x, for x a number, null, undefined or ''
NotTruthy(x) == x.t \in {"NaN", "null", "undefined"} \/ x = Str(<< >>) \/ IsZero(x)

\* x === undefined || x === null || x === '' || isNaN(x)
NotEntered(x) == x.t \in {"undefined", "null", "NaN"} \/ x = Str(<< >>)

validateConsumption_NoUpperTest(subConsumption, totalConsumption) ==
    IF NumLess(subConsumption, NumZero)
    THEN [valid |-> FALSE,
          error |-> "קריאה נוכחית של מונה משני חייבת להיות גדולה או שווה לקריאה הקודמת"]
    ELSE [valid |-> TRUE]

\* the two tests on subConsumption
validateConsumption(subConsumption, totalConsumption) ==
    IF NumLess(subConsumption, NumZero)
    THEN [valid |-> FALSE,
          error |-> "קריאה נוכחית של מונה משני חייבת להיות גדולה או שווה לקריאה הקודמת"]
    ELSE IF NumLess(totalConsumption, subConsumption)
    THEN [valid |-> FALSE,
          error |-> "צריכת המונה המשני לא יכולה להיות גדולה מהצריכה הכוללת בחשבונית"]
    ELSE [valid |-> TRUE]

validate(ps) ==
    IF NotTruthy(ps.totalBill) \/ ~NumLess(NumZero, ps.totalBill)
    THEN [valid |-> FALSE, error |-> "יש להזין סכום חשבונית חיובי"]
    ELSE IF NotTruthy(ps.totalConsumption)
            \/ ~NumLess(NumZero, ps.totalConsumption)
    THEN [valid |-> FALSE, error |-> "יש להזין צריכה כוללת מהחשבונית"]
    ELSE IF NotEntered(ps.subMeterPrev)
    THEN [valid |-> FALSE, error |-> "יש להזין קריאה קודמת של מונה משני"]
    ELSE IF NotEntered(ps.subMeterCurr)
    THEN [valid |-> FALSE, error |-> "יש להזין קריאה נוכחית של מונה משני"]
    ELSE validateConsumption(NumSub(ps.subMeterCurr, ps.subMeterPrev),
                             ps.totalConsumption)

\* Math.round(amount * 100) / 100
RoundToCents(amount) == NumDiv(MathRound(NumMul(amount, Hundred)), Hundred)

\* the object returned for valid parameters
Split(ps) ==
    LET unit2Consumption == NumSub(ps.subMeterCurr, ps.subMeterPrev)
        unit1Consumption == NumSub(ps.totalConsumption, unit2Consumption)
        unit2Percent ==
            NumMul(NumDiv(unit2Consumption, ps.totalConsumption), Hundred)
        unit1Percent ==
            NumMul(NumDiv(unit1Consumption, ps.totalConsumption), Hundred)
        unit2Amount == NumDiv(NumMul(ps.totalBill, unit2Percent), Hundred)
        unit1Amount == NumSub(ps.totalBill, unit2Amount)
    IN  [success |-> TRUE,
         billType |-> ps.billType,
         totalBill |-> ps.totalBill,
         totalConsumption |-> ps.totalConsumption,
         unit1 |-> [consumption |-> unit1Consumption,
                    percent |-> unit1Percent,
                    amount |-> RoundToCents(unit1Amount)],
         unit2 |-> [consumption |-> unit2Consumption,
                    percent |-> unit2Percent,
                    amount |-> RoundToCents(unit2Amount)],
         actualRatePerUnit |-> NumDiv(ps.totalBill, ps.totalConsumption),
         meters |-> [sub |-> [prev |-> ps.subMeterPrev,
                              curr |-> ps.subMeterCurr]]]

calculate(ps) ==
    IF ~validate(ps).valid
    THEN [success |-> FALSE, error |-> validate(ps).error]
    ELSE Split(ps)

\* what a call can be given for a number: nothing, or a decimal
Missing == {NaN, Undefined, Null, Str(<< >>)}

MaxCents == 3
MaxUnits == 3

ParamsSet ==
    [billType : BillTypes,
     totalBill : Missing \cup {Decimal(n, 100) :
                                  n \in (-1..MaxCents) \cup {10001}},
     totalConsumption : Missing \cup {Decimal(n, 1) : n \in -1..MaxUnits},
     subMeterPrev : Missing \cup {Decimal(n, 1) : n \in 0..1},
     subMeterCurr : Missing \cup {Decimal(n, 1) : n \in 0..(MaxUnits + 1)}]

InitCalc ==
    /\ params \in ParamsSet
    /\ calcResult = Undefined
    /\ text = Null
    /\ op = "none"
    /\ billType = "none"
    /\ cleaned = Undefined
    /\ result = Undefined
    /\ calls = << >>
    /\ StorageIdle
    /\ ProcessingIdle
    /\ PageLoaded

\* const result = Calculator.calculate(params)
Calculate ==
    /\ calcResult = Undefined
    /\ calcResult' = calculate(params)
    /\ UNCHANGED <<params, ocrVars, callVars, storeVars, procVars, uiVars>>

NextCalc == Calculate

SpecCalc == InitCalc /\ [][NextCalc]_vars

----------------------------------------------------------------------------
(* Storage: the history kept in one localStorage item.  An entry is       *)
(* modelled by its id and date; the fields copied from the result play no  *)
(* part in save, delete and clearAll.                                       *)

MaxEntries == 50
MaxClock == 1

\* JSON.stringify of the history, JSON.parse of the item
JSONstringify(history) == [t |-> "string", json |-> history]
JSONparse(data) == data.json

getAll(item) == IF item = Null THEN << >> ELSE JSONparse(item)

\* { id: Date.now().toString(), date: new Date().toISOString(), ...result }
Entry(clock) == [id |-> clock, date |-> clock]

Unshift_NoPop(history, entry) == <<entry>> \o history

\* history.unshift(entry); if (history.length > 50) history.pop()
Unshift(history, entry) ==
    IF Len(<<entry>> \o history) > MaxEntries
    THEN SubSeq(<<entry>> \o history, 1, Len(history))
    ELSE <<entry>> \o history

\* history.filter(entry => entry.id !== id)
Filter(history, id) == SelectSeq(history, LAMBDA entry : entry.id # id)

InitStorage ==
    /\ StorageIdle
    /\ ProcessingIdle
    /\ PageLoaded
    /\ params = Undefined
    /\ calcResult = Undefined
    /\ text = Null
    /\ op = "none"
    /\ billType = "none"
    /\ cleaned = Undefined
    /\ result = Undefined
    /\ calls = << >>

\* time passes
Tick ==
    /\ now < MaxClock
    /\ now' = now + 1
    /\ UNCHANGED <<store, last>>
    /\ UNCHANGED <<ocrVars, callVars, calcVars, procVars, uiVars>>

\* Storage.save(result), setItem succeeding
Save ==
    /\ store' = JSONstringify(Unshift(getAll(store), Entry(now)))
    /\ last' = [op |-> "save", returned |-> Entry(now),
                popped |-> Len(getAll(store)) + 1 > MaxEntries]
    /\ UNCHANGED now
    /\ UNCHANGED <<ocrVars, callVars, calcVars, procVars, uiVars>>

\* Storage.save(result), setItem throwing
SaveFails ==
    /\ last' = [op |-> "save", returned |-> Null, popped |-> FALSE]
    /\ UNCHANGED <<store, now>>
    /\ UNCHANGED <<ocrVars, callVars, calcVars, procVars, uiVars>>

\* Storage.delete(id), setItem succeeding
Delete(id) ==
    /\ store' = JSONstringify(Filter(getAll(store), id))
    /\ last' = [op |-> "delete", returned |-> TRUE]
    /\ UNCHANGED now
    /\ UNCHANGED <<ocrVars, callVars, calcVars, procVars, uiVars>>

\* Storage.delete(id), setItem throwing
DeleteFails ==
    /\ last' = [op |-> "delete", returned |-> FALSE]
    /\ UNCHANGED <<store, now>>
    /\ UNCHANGED <<ocrVars, callVars, calcVars, procVars, uiVars>>

\* Storage.clearAll()
ClearAll ==
    /\ store' = Null
    /\ last' = [op |-> "clearAll", returned |-> TRUE]
    /\ UNCHANGED now
    /\ UNCHANGED <<ocrVars, callVars, calcVars, procVars, uiVars>>

NextStorage ==
    \/ Tick
    \/ Save
    \/ SaveFails
    \/ \E id \in 0..MaxClock : Delete(id)
    \/ DeleteFails
    \/ ClearAll

SpecStorage == InitStorage /\ [][NextStorage]_vars

----------------------------------------------------------------------------
(* OCR.processImage and OCR.processReceipt.  A call runs to its await in   *)
(* one step and resumes in a later step, when Tesseract.recognize settles. *)
(* The object URL of a call is named by the call.                          *)

\* result.data.text
RecognizedTexts == {Str(ScenarioA), Str(ScenarioPoint)}

Functions == {"processImage", "processReceipt"}

\* the billType argument: processImage takes none
BillTypeArgs(fn) == IF fn = "processImage" THEN {"none"} ELSE BillTypes

\* calls are numbered in the order they are made
NextCall(c) ==
    /\ ocrCalls[c].pc = "notCalled"
    /\ \A b \in 1..(c - 1) : ocrCalls[b].pc # "notCalled"

\* the value the function returns for the recognised text
Extracted(fn, bt, txt) ==
    IF fn = "processImage" THEN extractNumbers(txt)
    ELSE extractReceiptData(txt, bt)

\* the error thrown from the catch block
CaughtError(fn) ==
    IF fn = "processImage" THEN "שגיאה בזיהוי הטקסט מהתמונה"
    ELSE "שגיאה בזיהוי הטקסט מהחשבונית"

InitProcessing ==
    /\ ProcessingIdle
    /\ StorageIdle
    /\ PageLoaded
    /\ params = Undefined
    /\ calcResult = Undefined
    /\ text = Null
    /\ op = "none"
    /\ billType = "none"
    /\ cleaned = Undefined
    /\ result = Undefined
    /\ calls = << >>

\* a call while isProcessing: throws before the try block
CallRejected(c, fn) ==
    /\ NextCall(c)
    /\ isProcessing
    /\ ocrCalls' = [ocrCalls EXCEPT
           ![c] = [pc |-> "rejected", fn |-> fn,
                   error |-> "כבר מעבד תמונה, נא להמתין"]]
    /\ UNCHANGED <<isProcessing, objectURLs>>
    /\ UNCHANGED <<ocrVars, callVars, calcVars, storeVars, uiVars>>

\* a call while not isProcessing, up to await Tesseract.recognize(...)
CallAccepted(c, fn, bt) ==
    /\ NextCall(c)
    /\ ~isProcessing
    /\ isProcessing' = TRUE
    /\ objectURLs' = objectURLs \cup {c}
    /\ ocrCalls' = [ocrCalls EXCEPT
           ![c] = [pc |-> "recognizing", fn |-> fn, billType |-> bt]]
    /\ UNCHANGED <<ocrVars, callVars, calcVars, storeVars, uiVars>>

\* a call while not isProcessing in which URL.createObjectURL throws
CallFailsAtOnce(c, fn, bt) ==
    /\ NextCall(c)
    /\ ~isProcessing
    /\ isProcessing' = FALSE
    /\ ocrCalls' = [ocrCalls EXCEPT
           ![c] = [pc |-> "failed", fn |-> fn, billType |-> bt,
                   error |-> CaughtError(fn)]]
    /\ UNCHANGED objectURLs
    /\ UNCHANGED <<ocrVars, callVars, calcVars, storeVars, uiVars>>

\* Tesseract.recognize fulfilled: the rest of the try block
Recognized(c, txt) ==
    /\ ocrCalls[c].pc = "recognizing"
    /\ objectURLs' = objectURLs \ {c}
    /\ isProcessing' = FALSE
    /\ ocrCalls' = [ocrCalls EXCEPT
           ![c] = [pc |-> "fulfilled", fn |-> ocrCalls[c].fn,
                   billType |-> ocrCalls[c].billType,
                   value |-> Extracted(ocrCalls[c].fn, ocrCalls[c].billType,
                                       txt)]]
    /\ UNCHANGED <<ocrVars, callVars, calcVars, storeVars, uiVars>>

RecognitionFails_FlagKept(c) ==
    /\ ocrCalls[c].pc = "recognizing"
    /\ ocrCalls' = [ocrCalls EXCEPT
           ![c] = [pc |-> "failed", fn |-> ocrCalls[c].fn,
                   billType |-> ocrCalls[c].billType,
                   error |-> CaughtError(ocrCalls[c].fn)]]
    /\ UNCHANGED <<isProcessing, objectURLs>>
    /\ UNCHANGED <<ocrVars, callVars, calcVars, storeVars, uiVars>>

\* Tesseract.recognize rejected: the catch block
RecognitionFails(c) ==
    /\ ocrCalls[c].pc = "recognizing"
    /\ isProcessing' = FALSE
    /\ ocrCalls' = [ocrCalls EXCEPT
           ![c] = [pc |-> "failed", fn |-> ocrCalls[c].fn,
                   billType |-> ocrCalls[c].billType,
                   error |-> CaughtError(ocrCalls[c].fn)]]
    /\ UNCHANGED objectURLs
    /\ UNCHANGED <<ocrVars, callVars, calcVars, storeVars, uiVars>>

NextProcessing ==
    \/ \E c \in 1..MaxOcrCalls, fn \in Functions : CallRejected(c, fn)
    \/ \E c \in 1..MaxOcrCalls, fn \in Functions :
           \E bt \in BillTypeArgs(fn) : CallAccepted(c, fn, bt)
    \/ \E c \in 1..MaxOcrCalls, fn \in Functions :
           \E bt \in BillTypeArgs(fn) : CallFailsAtOnce(c, fn, bt)
    \/ \E c \in 1..MaxOcrCalls, txt \in RecognizedTexts : Recognized(c, txt)
    \/ \E c \in 1..MaxOcrCalls : RecognitionFails(c)

SpecProcessing == InitProcessing /\ [][NextProcessing]_vars

----------------------------------------------------------------------------
(* The page: initOCR and initBillType.  An upload is the change event of   *)
(* meterImage with a file; upload c makes call c of OCR.processImage, and  *)
(* its file and its preview URL are named by c.  The handler runs to its   *)
(* await in one step and resumes when the call settles.  Of the fields the *)
(* bill-type buttons clear, only subMeterCurr is kept: nothing here writes *)
(* the others.                                                              *)

\* result.data.text for the photograph of a meter
MeterTexts == {Str(ScenarioA), Str(<< >>)}

InitPage ==
    /\ PageLoaded
    /\ ProcessingIdle
    /\ StorageIdle
    /\ params = Undefined
    /\ calcResult = Undefined
    /\ text = Null
    /\ op = "none"
    /\ billType = "none"
    /\ cleaned = Undefined
    /\ result = Undefined
    /\ calls = << >>

\* result.found && result.bestMatch !== null
Applies(r) == r.found /\ r.bestMatch # Null

\* an upload while a recognition runs: processImage throws, the handler
\* shows the error
UploadWhileProcessing(c) ==
    /\ NextCall(c)
    /\ isProcessing
    /\ previewImg' = c
    /\ startedFor' = [startedFor EXCEPT ![c] = currentBillType]
    /\ ocrCalls' = [ocrCalls EXCEPT
           ![c] = [pc |-> "rejected", fn |-> "processImage",
                   error |-> "כבר מעבד תמונה, נא להמתין"]]
    /\ ocrStatus' = [display |-> "block", className |-> "ocr-status error"]
    /\ UNCHANGED <<isProcessing, objectURLs, currentBillType, subMeterCurr>>
    /\ UNCHANGED <<ocrVars, callVars, calcVars, storeVars>>

\* an upload while none runs, up to the await inside processImage
Upload(c) ==
    /\ NextCall(c)
    /\ ~isProcessing
    /\ previewImg' = c
    /\ startedFor' = [startedFor EXCEPT ![c] = currentBillType]
    /\ ocrStatus' = [display |-> "block", className |-> "ocr-status loading"]
    /\ isProcessing' = TRUE
    /\ objectURLs' = objectURLs \cup {c}
    /\ ocrCalls' = [ocrCalls EXCEPT
           ![c] = [pc |-> "recognizing", fn |-> "processImage",
                   billType |-> "none"]]
    /\ UNCHANGED <<currentBillType, subMeterCurr>>
    /\ UNCHANGED <<ocrVars, callVars, calcVars, storeVars>>

\* what the handler leaves in the field and in the status line
ShowResult(r) ==
    IF Applies(r)
    THEN /\ subMeterCurr' = r.bestMatch
         /\ ocrStatus' = [ocrStatus EXCEPT !.className = "ocr-status success"]
    ELSE /\ subMeterCurr' = subMeterCurr
         /\ ocrStatus' = [ocrStatus EXCEPT !.className = "ocr-status error"]

\* the recognition of upload c fulfilled: the rest of processImage, then the
\* rest of the handler's try block
UploadRecognized(c, txt) ==
    /\ ocrCalls[c].pc = "recognizing"
    /\ objectURLs' = objectURLs \ {c}
    /\ isProcessing' = FALSE
    /\ ocrCalls' = [ocrCalls EXCEPT
           ![c] = [pc |-> "fulfilled", fn |-> "processImage",
                   billType |-> "none", value |-> extractNumbers(txt)]]
    /\ ShowResult(extractNumbers(txt))
    /\ UNCHANGED <<currentBillType, previewImg, startedFor>>
    /\ UNCHANGED <<ocrVars, callVars, calcVars, storeVars>>

\* the recognition of upload c rejected: the catch blocks of processImage
\* and of the handler
UploadFails(c) ==
    /\ ocrCalls[c].pc = "recognizing"
    /\ isProcessing' = FALSE
    /\ ocrCalls' = [ocrCalls EXCEPT
           ![c] = [pc |-> "failed", fn |-> "processImage",
                   billType |-> "none",
                   error |-> CaughtError("processImage")]]
    /\ ocrStatus' = [ocrStatus EXCEPT !.className = "ocr-status error"]
    /\ UNCHANGED <<objectURLs, currentBillType, previewImg, subMeterCurr,
                   startedFor>>
    /\ UNCHANGED <<ocrVars, callVars, calcVars, storeVars>>

\* click on removeImage
RemoveImage ==
    /\ previewImg' = 0
    /\ ocrStatus' = [ocrStatus EXCEPT !.display = "none"]
    /\ UNCHANGED <<currentBillType, subMeterCurr, startedFor>>
    /\ UNCHANGED <<ocrVars, callVars, calcVars, storeVars, procVars>>

\* click on a bill-type button
SelectBillType(bt) ==
    /\ currentBillType' = bt
    /\ subMeterCurr' = Str(<< >>)
    /\ UNCHANGED <<previewImg, ocrStatus, startedFor>>
    /\ UNCHANGED <<ocrVars, callVars, calcVars, storeVars, procVars>>

NextPage ==
    \/ \E c \in 1..MaxOcrCalls : UploadWhileProcessing(c)
    \/ \E c \in 1..MaxOcrCalls : Upload(c)
    \/ \E c \in 1..MaxOcrCalls, txt \in MeterTexts : UploadRecognized(c, txt)
    \/ \E c \in 1..MaxOcrCalls : UploadFails(c)
    \/ RemoveImage
    \/ \E bt \in BillTypes : SelectBillType(bt)

SpecPage == InitPage /\ [][NextPage]_vars

----------------------------------------------------------------------------
(* Properties *)

AfterNumbers == op = "extractNumbers"
AfterReceipt == op = "extractReceiptData"

\* the letters that look like digits, and the digit each stands for
GlyphLetters == {"o", "O", "l", "I", "|", "s", "S", "b", "B"}
GlyphDigit(c) ==
    CASE c \in {"o", "O"} -> "0"
      [] c \in {"l", "I", "|"} -> "1"
      [] c \in {"s", "S"} -> "5"
      [] c \in {"b", "B"} -> "8"
      [] OTHER -> c
Substituted(s) == [n \in 1..Len(s) |-> GlyphDigit(s[n])]

HasDigit(s) == \E n \in 1..Len(s) : s[n] \in Digit
IsText == text.t = "str"
Count(s, cs) == Cardinality({n \in 1..Len(s) : s[n] \in cs})

\* 0 < v < hi
Inside(v, hi) == IsNum(v) /\ Gt(v, Zero) /\ Lt(v, hi)

\* C1: after extractNumbers, found = true implies that bestMatch is a number
\* inside the plausibility interval (strictly positive), and found = false
\* implies that bestMatch is null.
C1_FoundIffPlausibleBestMatch ==
    AfterNumbers =>
        IF result.found
        THEN IsNum(result.bestMatch) /\ Gt(result.bestMatch, Zero)
        ELSE result.bestMatch = Null

\* 123.45
Amount123_45 == Num(<<"1", "2", "3">>, <<"4", "5">>)

\* C2: total extraction on "Total Due: 123.45 and subtotal 45.00" reports
\* found = true with total 123.45, the maximum of the plausible amounts.
C2_ScenarioBTotalIsMaximum ==
    (AfterReceipt /\ text = Str(ScenarioB)) =>
        (result.found /\ result.totalBill = Amount123_45)

\* the values inside (0, 50000) that the matches of a bill pattern capture
\* in s, all its non-overlapping matches taken in text order
BillCandidates(p, s) ==
    LET all == ExecAll(p.re, s, 1)
        vals == [n \in 1..Len(all) |-> ParseCaptured(all[n].m1)]
    IN  SelectSeq(vals, LAMBDA v : Inside(v, MaxBill))

\* the first pattern of the cascade with a candidate, 0 when there is none
FirstSuccessfulPattern(s) ==
    LET ok == {n \in 1..Len(billPatterns) :
                   BillCandidates(billPatterns[n], s) # << >>}
    IN  IF ok = {} THEN 0 ELSE CHOOSE n \in ok : \A k \in ok : n <= k

\* C3: when a match of a keyword-anchored bill pattern captures a value
\* inside the plausibility interval, the returned total is one of the
\* candidates of the first such pattern of the cascade.
C3_CascadeShortCircuits ==
    (AfterReceipt /\ cleaned.t = "str"
        /\ FirstSuccessfulPattern(cleaned.s) # 0) =>
        LET cs == BillCandidates(
                      billPatterns[FirstSuccessfulPattern(cleaned.s)],
                      cleaned.s)
        IN  \E n \in 1..Len(cs) : result.totalBill = cs[n]

\* the candidate list of a result: numbers for a meter reading; a receipt
\* result carries none
CandidateList(r) ==
    IF "numbers" \in DOMAIN r THEN r.numbers
    ELSE IF "candidates" \in DOMAIN r THEN r.candidates
    ELSE << >>

\* every number the meter-reading patterns match in s is outside the
\* plausibility interval, and there is one
AllReadingsImplausible(s) ==
    LET ms == MatchedStrings(numberPattern, s)
        all == IF ms # << >> THEN ms ELSE MatchedStrings(simplePattern, s)
    IN  /\ all # << >>
        /\ \A n \in 1..Len(all) : ~Gt(ParseFloat(all[n]), Zero)

\* the captures of all matches of the patterns ps in s that are inside, or
\* that are outside, (lo, hi)
Captures(ps, s, lo, hi, inside) ==
    UNION {
        LET all == ExecAll(ps[k].re, s, 1)
        IN  {ParseCaptured(all[n].m1) : n \in
                {j \in 1..Len(all) :
                    LET v == ParseCaptured(all[j].m1)
                    IN  (Gt(v, lo) /\ Lt(v, hi)) = inside}}
        : k \in 1..Len(ps)}

ConsumptionPatterns(bt) ==
    IF bt = "electricity" THEN electricityPatterns ELSE waterPatterns
ConsumptionMax(bt) ==
    IF bt = "electricity" THEN MaxElectricity ELSE MaxWater

\* every number the receipt patterns match in s is outside its plausibility
\* interval, and there is one
AllReceiptMatchesImplausible(s, bt) ==
    LET money == <<[g |-> TRUE, re |-> moneyPattern]>>
    IN  /\ Captures(billPatterns, s, Zero, MaxBill, TRUE) = {}
        /\ Captures(money, s, MinFallback, MaxBill, TRUE) = {}
        /\ Captures(ConsumptionPatterns(bt), s, Zero, ConsumptionMax(bt),
                    TRUE) = {}
        /\ Captures(billPatterns, s, Zero, MaxBill, FALSE)
           \cup Captures(money, s, MinFallback, MaxBill, FALSE)
           \cup Captures(ConsumptionPatterns(bt), s, Zero,
                         ConsumptionMax(bt), FALSE) # {}

\* C4: when every pattern-matched number is outside the plausibility
\* interval, the extraction reports found = false with a non-empty candidate
\* list (the out-of-range matches), unlike the outcome without numbers.
C4_ImplausibleMatchesAreListed ==
    /\ (AfterNumbers /\ cleaned.t = "str"
            /\ AllReadingsImplausible(cleaned.s)) =>
           (~result.found /\ CandidateList(result) # << >>)
    /\ (AfterReceipt /\ cleaned.t = "str"
            /\ AllReceiptMatchesImplausible(cleaned.s, billType)) =>
           (~result.found /\ CandidateList(result) # << >>)

\* the normalised form of the input has no digit: the text is null or
\* empty, or has no digit and (for a meter reading) no look-alike letter
NoDigitForNumbers ==
    IsText => \A n \in 1..Len(text.s) : text.s[n] \notin Digit \cup GlyphLetters
NoDigitForReceipt == IsText => ~HasDigit(text.s)

\* C5: for a text whose normalised form has no digit (null and the empty
\* string included) both extractions return found = false with no candidate
\* and no selected value, and raise no error.
C5_NoDigitsNothingFound ==
    /\ (AfterNumbers /\ NoDigitForNumbers) =>
           /\ result # TypeError
           /\ result.found = FALSE
           /\ result.numbers = << >>
           /\ result.bestMatch = Null
    /\ (AfterReceipt /\ NoDigitForReceipt) =>
           /\ result # TypeError
           /\ result.found = FALSE
           /\ result.totalBill = Null
           /\ result.consumption = Null

\* a text with visible characters and no digit went through receipt
\* extraction, and nothing was found
C5_Witness ==
    /\ AfterReceipt /\ IsText /\ ~TrimIsEmpty(text.s) /\ ~HasDigit(text.s)
    /\ result.found = FALSE

\* C6: a non-null totalBill is inside (0, 50000) and a non-null consumption
\* is inside (0, 100000) for electricity, (0, 10000) otherwise.
C6_ReceiptValuesPlausible ==
    AfterReceipt =>
        /\ result.totalBill # Null =>
               Inside(result.totalBill, Literal(<<"5", "0", "0", "0", "0">>))
        /\ result.consumption # Null =>
               Inside(result.consumption,
                      IF billType = "electricity"
                      THEN Literal(<<"1", "0", "0", "0", "0", "0">>)
                      ELSE Literal(<<"1", "0", "0", "0", "0">>))

\* a receipt with a match outside the interval of the total, from which a
\* total and a consumption were nevertheless returned
C6_Witness ==
    /\ AfterReceipt /\ cleaned.t = "str"
    /\ Captures(billPatterns, cleaned.s, Zero, MaxBill, FALSE) # {}
    /\ result.totalBill # Null
    /\ result.consumption # Null

\* the matches of the longest length among ms, in text order
Longest(ms) ==
    SelectSeq(ms, LAMBDA m : \A n \in 1..Len(ms) : Len(ms[n]) <= Len(m))

\* C7: when the text has two digit runs of equal length and no longer one,
\* the selected value is that of the earlier run.
C7_EarlierOfEqualRuns ==
    (AfterNumbers /\ cleaned.t = "str"
        /\ Len(Longest(MatchedStrings(numberPattern, cleaned.s))) >= 2) =>
        result.bestMatch
            = ParseFloat(Longest(MatchedStrings(numberPattern, cleaned.s))[1])

OnlyGlyphs(s) == s # << >> /\ \A n \in 1..Len(s) : s[n] \in Digit \cup GlyphLetters

\* C8: the glyph map is applied before matching.  A text of digits and
\* look-alike letters is read as the digit string obtained by substituting
\* the glyphs: the outcome is that of the substituted text, and a single
\* reading (3 to 8 glyphs, not all zero) yields the number of that digit
\* string; "O1234" yields found = true with value 1234.
C8_GlyphsReadAsDigits ==
    /\ (AfterNumbers /\ IsText /\ OnlyGlyphs(text.s)) =>
           LET sub == Substituted(text.s)
               direct == extractNumbers(Str(sub))
           IN  /\ result.found = direct.found
               /\ result.numbers = direct.numbers
               /\ result.bestMatch = direct.bestMatch
               /\ (Len(sub) \in 3..8 /\ StripLeadingZeros(sub) # << >>) =>
                      /\ result.found
                      /\ result.bestMatch = Num(StripLeadingZeros(sub), << >>)
    /\ (AfterNumbers /\ text = Str(ScenarioA)) =>
           /\ result.found
           /\ result.bestMatch = Num(<<"1", "2", "3", "4">>, << >>)

\* a text with a look-alike letter was read as a number
C8_Witness ==
    /\ AfterNumbers /\ IsText /\ OnlyGlyphs(text.s)
    /\ Count(text.s, GlyphLetters) > 0
    /\ Len(text.s) \in 3..8
    /\ result.found /\ IsNum(result.bestMatch)

\* C9: glyph correction belongs to the meter-reading mode only.  For a text
\* with the letter O, the normalisation of extractNumbers leaves no O and
\* that of extractReceiptData leaves every O, so the two differ; a receipt
\* text without a digit character yields no value, whatever its letters.
C9_GlyphsOnlyInBareMode ==
    /\ (AfterNumbers /\ cleaned.t = "str" /\ Count(text.s, {"O", "o"}) > 0) =>
           /\ Count(cleaned.s, {"O", "o"}) = 0
           /\ cleaned.s # ReceiptClean(text.s)
    /\ (AfterReceipt /\ cleaned.t = "str" /\ Count(text.s, {"O", "o"}) > 0) =>
           /\ Count(cleaned.s, {"O"}) = Count(text.s, {"O"})
           /\ Count(cleaned.s, {"o"}) = Count(text.s, {"o"})
           /\ Count(cleaned.s, Digit) = Count(text.s, Digit)
           /\ cleaned.s # GlyphClean(text.s)
    /\ (AfterReceipt /\ IsText /\ ~HasDigit(text.s)) =>
           (result.totalBill = Null /\ result.consumption = Null)

\* a text with the letter O and no digit, which reads as a number in the
\* meter-reading mode, went through receipt extraction
C9_Witness ==
    /\ AfterReceipt /\ IsText /\ ~HasDigit(text.s)
    /\ Count(text.s, {"O", "o"}) > 0
    /\ IsNum(extractNumbers(text).bestMatch)
    /\ ~result.found

\* C10: both normalisations are idempotent: normalising the normalised text
\* again returns it unchanged.
C10_NormalizationIdempotent ==
    /\ (AfterNumbers /\ cleaned.t = "str") => GlyphClean(cleaned.s) = cleaned.s
    /\ (AfterReceipt /\ cleaned.t = "str") => ReceiptClean(cleaned.s) = cleaned.s

\* the text of the calls has visible characters, so that it is normalised
CallsOnText == text.t = "str" /\ ~TrimIsEmpty(text.s)

PositiveMatches(s) ==
    SelectSeq(MatchedStrings(numberPattern, s),
              LAMBDA x : Gt(ParseFloat(x), Zero))

\* the list numbers is the values of the matched strings ms in an order of
\* non-increasing matched length
OrderedByMatchLength(numbers, ms) ==
    /\ Len(numbers) = Len(ms)
    /\ \E f \in [1..Len(ms) -> 1..Len(ms)] :
           /\ \A a, b \in 1..Len(ms) : f[a] = f[b] => a = b
           /\ \A k \in 1..Len(ms) : numbers[k] = ParseFloat(ms[f[k]])
           /\ \A k \in 1..(Len(ms) - 1) : Len(ms[f[k]]) >= Len(ms[f[k + 1]])

\* C12: the candidate list of extractNumbers is ordered by non-increasing
\* length of the matched digit strings, and the selected value is that of
\* a longest matched digit string among the candidates.
C12_LongestDigitRunFirst ==
    (AfterNumbers /\ cleaned.t = "str"
        /\ PositiveMatches(cleaned.s) # << >>) =>
        /\ OrderedByMatchLength(result.numbers, PositiveMatches(cleaned.s))
        /\ \E n \in 1..Len(Longest(PositiveMatches(cleaned.s))) :
               result.bestMatch
                   = ParseFloat(Longest(PositiveMatches(cleaned.s))[n])

\* s has exactly one comma, and it stands between a digit and exactly two
\* digits
OneDecimalComma(s) ==
    /\ Count(s, {","}) = 1
    /\ \E n \in 2..(Len(s) - 2) :
           /\ s[n] = ","
           /\ s[n - 1] \in Digit /\ s[n + 1] \in Digit /\ s[n + 2] \in Digit
           /\ n + 3 <= Len(s) => s[n + 3] \notin Digit

\* C13: a number written with one comma followed by two digits is read
\* with the comma as decimal separator: "total 123,45" yields the total
\* 123.45, and a text with such a comma yields the total of the same text
\* written with a point.
C13_CommaIsDecimalSeparator ==
    /\ (AfterReceipt /\ text = Str(ScenarioComma)) =>
           result.totalBill = Amount123_45
    /\ (AfterReceipt /\ IsText /\ OneDecimalComma(text.s)
            /\ extractReceiptData(Str(ReplaceFirst(text.s, ",", ".")),
                                  billType).totalBill # Null) =>
           result.totalBill
               = extractReceiptData(Str(ReplaceFirst(text.s, ",", ".")),
                                    billType).totalBill

\* the monetary amounts of s inside the fallback interval (10, 50000)
PlausibleAmounts(s) ==
    Captures(<<[g |-> TRUE, re |-> moneyPattern]>>, s, MinFallback, MaxBill,
             TRUE)

\* no pattern of the cascade gave a total
NoKeywordTotal(s) == FirstInRange(billPatterns, s, Zero, MaxBill) = Null

\* C14: when no bill pattern of the cascade succeeds, the total is the
\* maximum of the monetary amounts inside the fallback interval, and null
\* exactly when there is none.
C14_FallbackTotalIsMaximum ==
    (AfterReceipt /\ cleaned.t = "str" /\ NoKeywordTotal(cleaned.s)) =>
        IF PlausibleAmounts(cleaned.s) = {}
        THEN result.totalBill = Null
        ELSE /\ result.totalBill \in PlausibleAmounts(cleaned.s)
             /\ \A v \in PlausibleAmounts(cleaned.s) :
                    ~Lt(result.totalBill, v)

\* the fallback chose among several amounts, and not the first of the text
C14_Witness ==
    /\ AfterReceipt /\ cleaned.t = "str" /\ NoKeywordTotal(cleaned.s)
    /\ Cardinality(PlausibleAmounts(cleaned.s)) >= 2
    /\ result.totalBill # FallbackAmounts(cleaned.s)[1]
    /\ result.totalBill
           # FallbackAmounts(cleaned.s)[Len(FallbackAmounts(cleaned.s))]

\* the monetary amounts of s inside the interval of the keyword patterns,
\* (0, 50000)
KeywordPlausibleAmounts(s) ==
    Captures(<<[g |-> TRUE, re |-> moneyPattern]>>, s, Zero, MaxBill, TRUE)

\* C15: the interval of the keyword-free scan is at least as wide as that
\* of the keyword patterns: when the scan runs, every monetary amount that
\* the keyword interval (0, 50000) accepts is accepted by the scan, so a
\* total is returned and no such amount exceeds it.
C15_FallbackIntervalIsWider ==
    (AfterReceipt /\ cleaned.t = "str" /\ NoKeywordTotal(cleaned.s)
        /\ KeywordPlausibleAmounts(cleaned.s) # {}) =>
        /\ result.totalBill # Null
        /\ \A v \in KeywordPlausibleAmounts(cleaned.s) :
               ~Lt(result.totalBill, v)

\* s has one of the keywords of the total
HasTotalKeyword(s) ==
    Exec(Alt(<<LitI(WTotal), LitI(WLeTashlum), LitI(WSahakQ), LitI(WSahak),
               LitI(WHeshbon), LitI(WYitra), LitI(WSkhum)>>), s, 1) # NoMatch

\* the two-decimal amounts of s next to the currency sign: the captures of
\* the matches of the two currency patterns of the cascade
CurrencyAmounts(s) ==
    CapturedValues(ExecAll(billPatterns[3].re, s, 1))
    \o CapturedValues(ExecAll(billPatterns[4].re, s, 1))

\* C16: in a text without total keyword and with exactly one two-decimal
\* amount next to the currency sign, of a value v inside (0, 50000), the
\* returned total is v.
C16_CurrencyAdjacentAmountIsTotal ==
    (AfterReceipt /\ cleaned.t = "str" /\ ~HasTotalKeyword(cleaned.s)
        /\ Len(CurrencyAmounts(cleaned.s)) = 1
        /\ Inside(CurrencyAmounts(cleaned.s)[1], MaxBill)) =>
        result.totalBill = CurrencyAmounts(cleaned.s)[1]

----------------------------------------------------------------------------
(* Calculator.calculate *)

\* a number was given: neither NaN nor a missing value
IsNumber(x) == x.t = "double"

\* the input the claim calls acceptable
Acceptable(ps) ==
    /\ IsNumber(ps.totalBill) /\ NumLess(NumZero, ps.totalBill)
    /\ IsNumber(ps.totalConsumption) /\ NumLess(NumZero, ps.totalConsumption)
    /\ IsNumber(ps.subMeterPrev) /\ IsNumber(ps.subMeterCurr)
    /\ ~NumLess(NumSub(ps.subMeterCurr, ps.subMeterPrev), NumZero)
    /\ ~NumLess(ps.totalConsumption, NumSub(ps.subMeterCurr, ps.subMeterPrev))

PercentSum(r) == NumAdd(r.unit2.percent, r.unit1.percent)

\* |x - y| < 2^-40
Near(x, y) ==
    /\ NumLess(NumSub(x, y), Double(1, One, -40))
    /\ NumLess(NumSub(y, x), Double(1, One, -40))

\* a successful result splits the consumption as the claim says
SplitsConsumption(ps, r) ==
    /\ r.success
    /\ r.unit2.consumption = NumSub(ps.subMeterCurr, ps.subMeterPrev)
    /\ r.unit1.consumption = NumSub(ps.totalConsumption, r.unit2.consumption)
    /\ ~NumLess(r.unit1.consumption, NumZero)
    /\ IsFinite(r.unit1.percent) /\ IsFinite(r.unit2.percent)
    /\ IsFinite(r.actualRatePerUnit)

\* a refusal carries an error and no split
Refuses(r) == ~r.success /\ DOMAIN r = {"success", "error"}

AmountsAddUp(r) ==
    NumAdd(MathRound(NumMul(r.unit1.amount, Hundred)),
           MathRound(NumMul(r.unit2.amount, Hundred)))
        = MathRound(NumMul(r.totalBill, Hundred))

\* C19: for every successful calculate, unit1.amount + unit2.amount equals
\* totalBill to the cent.
C19_AmountsAddUpToBill ==
    (calcResult # Undefined /\ calcResult.success) => AmountsAddUp(calcResult)

----------------------------------------------------------------------------
(* Storage *)

\* a save that succeeded left the new entry first and the others behind it
\* in their order, without the last one if the history was full
SavedInFront(before, after, entry) ==
    /\ after[1] = entry
    /\ Tail(after) = IF Len(before) < MaxEntries
                     THEN before
                     ELSE SubSeq(before, 1, Len(before) - 1)

\* C18: the stored history never holds more than 50 entries, and a
\* successful save puts the new entry first, keeps the order of the others
\* and drops only the oldest one, when the history already held 50.
C18_HistoryCappedNewestFirst ==
    /\ [](Len(getAll(store)) <= MaxEntries)
    /\ [][(now' = now /\ last'.op = "save" /\ last'.returned # Null)
            => SavedInFront(getAll(store), getAll(store'), last'.returned)]_vars

\* a save into a full history, whose oldest entry differed from the newest
C18_Witness ==
    /\ last.op = "save"
    /\ last.popped
    /\ Len(getAll(store)) = MaxEntries
    /\ getAll(store)[1].id # getAll(store)[MaxEntries].id

----------------------------------------------------------------------------
(* OCR.isProcessing *)

\* the accepted calls that have not settled
InFlight == {c \in 1..MaxOcrCalls : ocrCalls[c].pc = "recognizing"}

Settled(c) == ocrCalls[c].pc \in {"fulfilled", "failed"}

\* C20: isProcessing is true exactly while one accepted call is in flight
\* and at most one recognition runs at a time; a call made meanwhile is
\* rejected without starting a recognition and without changing the flag,
\* and only then; when the accepted call settles the flag is false.
C20_FlagMarksTheCallInFlight ==
    /\ [](Cardinality(InFlight) <= 1 /\ (isProcessing <=> InFlight # {}))
    /\ [][\A c \in 1..MaxOcrCalls :
            /\ (ocrCalls[c].pc = "notCalled" /\ ocrCalls'[c].pc = "rejected")
                   => (isProcessing /\ isProcessing' /\ InFlight' = InFlight)
            /\ (ocrCalls[c].pc = "notCalled" /\ ~isProcessing
                    /\ ocrCalls'[c].pc # "notCalled")
                   => ocrCalls'[c].pc # "rejected"
            /\ (ocrCalls[c].pc = "recognizing" /\ Settled(c)')
                   => ~isProcessing']_vars

\* one call settled, one was rejected, and a later one is in flight
C20_Witness ==
    /\ isProcessing
    /\ \E c \in 1..MaxOcrCalls : ocrCalls[c].pc = "failed"
    /\ \E c \in 1..MaxOcrCalls : ocrCalls[c].pc = "rejected"
    /\ InFlight # {}

----------------------------------------------------------------------------
(* Object URLs of processImage and processReceipt *)

\* C22: every object URL created inside processImage or processReceipt is
\* revoked by the time the call settles, whether it succeeds or fails.
C22_ObjectUrlRevokedWhenSettled ==
    \A c \in 1..MaxOcrCalls : Settled(c) => c \notin objectURLs

----------------------------------------------------------------------------
(* Ids of the history entries *)

\* C23: no two entries of the stored history share an id, so that
\* Storage.delete(id) removes exactly the one entry saved with that id.
C23_IdsAreUnique ==
    \A i, j \in 1..Len(getAll(store)) :
        i # j => getAll(store)[i].id # getAll(store)[j].id

----------------------------------------------------------------------------
(* Recognition results and the form *)

\* upload c has written its result into subMeterCurr
Applied(c) == ocrCalls[c].pc = "fulfilled" /\ Applies(ocrCalls[c].value)

\* C21: a recognition result is written into subMeterCurr only if its image
\* is the one in the preview and the bill type chosen is the one that was
\* chosen when its upload began.
C21_ResultAppliedToCurrentImage ==
    [][\A c \in 1..MaxOcrCalls :
          (ocrCalls[c].pc = "recognizing" /\ Applied(c)')
              => (previewImg = c /\ startedFor[c] = currentBillType)]_vars

============================================================================
